---- MODULE Spec2Model ----
(***************************************************************************)
(* Model of authentication/backends/storage_backend.go: the BoltAuth       *)
(* backend (users and tokens kept in buckets of one bolt database) and     *)
(* the JSON record codec of User.                                          *)
(*                                                                         *)
(* A byte string is a sequence of integers in 0..255.  A Go string is the  *)
(* same thing (Go strings are byte strings, not necessarily UTF-8).        *)
(***************************************************************************)
EXTENDS Integers, Sequences, FiniteSets, TLC

(***************************************************************************)
(* Byte-string literals used by the codec.                                 *)
(***************************************************************************)
S_uuid     == <<117, 117, 105, 100>>
S_username == <<117, 115, 101, 114, 110, 97, 109, 101>>
S_password == <<112, 97, 115, 115, 119, 111, 114, 100>>
S_is_admin == <<105, 115, 95, 97, 100, 109, 105, 110>>
S_true     == <<116, 114, 117, 101>>
S_false    == <<102, 97, 108, 115, 101>>
S_null     == <<110, 117, 108, 108>>
\* U+FFFD, the Unicode replacement character, in UTF-8
RuneErrorUTF8 == <<239, 191, 189>>

(***************************************************************************)
(* unicode/utf8: the number of bytes of the valid UTF-8 sequence that      *)
(* starts at b[i], or 0 when b[i] does not start one (utf8.DecodeRune      *)
(* then yields RuneError with size 1).                                     *)
(***************************************************************************)
IsCont(b, i) == i <= Len(b) /\ b[i] >= 128 /\ b[i] <= 191

RuneLen(b, i) ==
    LET c == b[i] IN
    IF c < 128 THEN 1
    ELSE IF c >= 194 /\ c <= 223
         THEN (IF IsCont(b, i + 1) THEN 2 ELSE 0)
    ELSE IF c >= 224 /\ c <= 239
         THEN (IF /\ IsCont(b, i + 1) /\ IsCont(b, i + 2)
                  /\ (c = 224 => b[i + 1] >= 160)
                  /\ (c = 237 => b[i + 1] <= 159)
               THEN 3 ELSE 0)
    ELSE IF c >= 240 /\ c <= 244
         THEN (IF /\ IsCont(b, i + 1) /\ IsCont(b, i + 2) /\ IsCont(b, i + 3)
                  /\ (c = 240 => b[i + 1] >= 144)
                  /\ (c = 244 => b[i + 1] <= 143)
               THEN 4 ELSE 0)
    ELSE 0

\* the UTF-8 encoding of the code point r (utf8.EncodeRune)
EncodeRune(r) ==
    IF r < 128 THEN <<r>>
    ELSE IF r < 2048 THEN <<192 + (r \div 64), 128 + (r % 64)>>
    ELSE IF r >= 55296 /\ r <= 57343 THEN RuneErrorUTF8
    ELSE IF r < 65536
         THEN <<224 + (r \div 4096), 128 + ((r \div 64) % 64), 128 + (r % 64)>>
    ELSE <<240 + (r \div 262144), 128 + ((r \div 4096) % 64),
           128 + ((r \div 64) % 64), 128 + (r % 64)>>

\* lower-case hexadecimal digit of a value 0..15, as a byte
HexDigit(n) == IF n < 10 THEN 48 + n ELSE 87 + n

\* value of a hexadecimal digit byte, or -1
HexVal(c) ==
    IF c >= 48 /\ c <= 57 THEN c - 48
    ELSE IF c >= 97 /\ c <= 102 THEN c - 87
    ELSE IF c >= 65 /\ c <= 70 THEN c - 55
    ELSE -1

(***************************************************************************)
(* encoding/json, writing a Go string as a JSON string (json.Encoder has   *)
(* HTML escaping on): quote and backslash are escaped, control bytes       *)
(* become the two-byte escapes for newline, carriage return and tab or a   *)
(* backslash-u escape with four hex digits, the bytes < > & and the code   *)
(* points 2028 and 2029 become backslash-u escapes too, and every byte     *)
(* that is not part of a valid UTF-8 sequence is replaced by the escape    *)
(* of the replacement character FFFD.                                      *)
(***************************************************************************)
U00(c) == <<92, 117, 48, 48, HexDigit(c \div 16), HexDigit(c % 16)>>

RECURSIVE EscapeFrom(_, _, _)
EscapeFrom(s, i, acc) ==
    IF i > Len(s) THEN acc
    ELSE LET c == s[i] IN
         IF c = 34 \/ c = 92 THEN EscapeFrom(s, i + 1, acc \o <<92, c>>)
         ELSE IF c = 10 THEN EscapeFrom(s, i + 1, acc \o <<92, 110>>)
         ELSE IF c = 13 THEN EscapeFrom(s, i + 1, acc \o <<92, 114>>)
         ELSE IF c = 9 THEN EscapeFrom(s, i + 1, acc \o <<92, 116>>)
         ELSE IF c < 32 \/ c = 60 \/ c = 62 \/ c = 38
              THEN EscapeFrom(s, i + 1, acc \o U00(c))
         ELSE IF c < 128 THEN EscapeFrom(s, i + 1, Append(acc, c))
         ELSE LET n == RuneLen(s, i) IN
              IF n = 0
              THEN EscapeFrom(s, i + 1, acc \o <<92, 117, 102, 102, 102, 100>>)
              ELSE IF n = 3 /\ c = 226 /\ s[i + 1] = 128 /\ s[i + 2] \in {168, 169}
              THEN EscapeFrom(s, i + 3,
                              acc \o <<92, 117, 50, 48, 50, HexDigit(s[i + 2] - 160)>>)
              ELSE EscapeFrom(s, i + n, acc \o SubSeq(s, i, i + n - 1))

Quote(s) == <<34>> \o EscapeFrom(s, 1, <<>>) \o <<34>>

(***************************************************************************)
(* User.Encode: the JSON object of the four fields, in declaration order   *)
(* and under their json tags, followed by the newline json.Encoder adds.   *)
(* Encoding a User never fails.                                            *)
(***************************************************************************)
Encode(u) ==
    <<123>> \o Quote(S_uuid) \o <<58>> \o Quote(u.UUID)
    \o <<44>> \o Quote(S_username) \o <<58>> \o Quote(u.Username)
    \o <<44>> \o Quote(S_password) \o <<58>> \o Quote(u.Password)
    \o <<44>> \o Quote(S_is_admin) \o <<58>>
    \o (IF u.IsAdmin THEN S_true ELSE S_false)
    \o <<125, 10>>

(***************************************************************************)
(* encoding/json, reading.  The grammar modelled is JSON restricted to     *)
(* strings, the literals true, false and null, and objects of these        *)
(* (nested to any depth); white space is space, tab, CR and LF.  A number  *)
(* or an array is reported as an error: Go reports one too wherever the    *)
(* target is a User or one of its fields, so the model departs from Go     *)
(* only for a number or array under a field name User does not have.       *)
(***************************************************************************)
IsSpace(c) == c = 32 \/ c = 9 \/ c = 13 \/ c = 10

RECURSIVE SkipSpace(_, _)
SkipSpace(b, i) ==
    IF i <= Len(b) /\ IsSpace(b[i]) THEN SkipSpace(b, i + 1) ELSE i

\* the code point of the four hex digits at b[i..i+3], or -1
Hex4(b, i) ==
    IF i + 3 > Len(b) THEN -1
    ELSE IF \E k \in 0..3 : HexVal(b[i + k]) = -1 THEN -1
    ELSE 4096 * HexVal(b[i]) + 256 * HexVal(b[i + 1])
         + 16 * HexVal(b[i + 2]) + HexVal(b[i + 3])

BadString == [ok |-> FALSE, next |-> 0, str |-> <<>>]

(***************************************************************************)
(* The JSON string whose opening quote is at b[i - 1]: its end and its     *)
(* unquoted value (json.unquote).  A control byte, an unknown escape or a  *)
(* missing closing quote is a syntax error; a byte that is not valid       *)
(* UTF-8 and an unpaired surrogate escape become U+FFFD.                   *)
(***************************************************************************)
RECURSIVE ScanString(_, _, _)
ScanString(b, i, acc) ==
    IF i > Len(b) THEN BadString
    ELSE LET c == b[i] IN
         IF c = 34 THEN [ok |-> TRUE, next |-> i + 1, str |-> acc]
         ELSE IF c < 32 THEN BadString
         ELSE IF c = 92
         THEN (IF i + 1 > Len(b) THEN BadString
               ELSE LET e == b[i + 1] IN
                    IF e = 34 \/ e = 92 \/ e = 47
                    THEN ScanString(b, i + 2, Append(acc, e))
                    ELSE IF e = 98 THEN ScanString(b, i + 2, Append(acc, 8))
                    ELSE IF e = 102 THEN ScanString(b, i + 2, Append(acc, 12))
                    ELSE IF e = 110 THEN ScanString(b, i + 2, Append(acc, 10))
                    ELSE IF e = 114 THEN ScanString(b, i + 2, Append(acc, 13))
                    ELSE IF e = 116 THEN ScanString(b, i + 2, Append(acc, 9))
                    ELSE IF e = 117
                    THEN (LET r == Hex4(b, i + 2) IN
                          IF r = -1 THEN BadString
                          ELSE IF r >= 55296 /\ r <= 56319
                                  /\ i + 7 <= Len(b)
                                  /\ b[i + 6] = 92 /\ b[i + 7] = 117
                                  /\ Hex4(b, i + 8) >= 56320
                                  /\ Hex4(b, i + 8) <= 57343
                          THEN ScanString(b, i + 12,
                                 acc \o EncodeRune(65536 + (r - 55296) * 1024
                                                   + (Hex4(b, i + 8) - 56320)))
                          ELSE ScanString(b, i + 6, acc \o EncodeRune(r)))
                    ELSE BadString)
         ELSE IF c < 128 THEN ScanString(b, i + 1, Append(acc, c))
         ELSE LET n == RuneLen(b, i) IN
              IF n = 0 THEN ScanString(b, i + 1, acc \o RuneErrorUTF8)
              ELSE ScanString(b, i + n, acc \o SubSeq(b, i, i + n - 1))

HasPrefixAt(b, i, lit) ==
    i + Len(lit) - 1 <= Len(b) /\ SubSeq(b, i, i + Len(lit) - 1) = lit

BadValue == [ok |-> FALSE, next |-> 0, kind |-> "error", str |-> <<>>,
             members |-> <<>>]

\* a scanned value that is not an object
Scalar(next, kind, str) ==
    [ok |-> TRUE, next |-> next, kind |-> kind, str |-> str, members |-> <<>>]

(***************************************************************************)
(* The JSON value that starts at b[i] (white space already skipped): its   *)
(* end, its kind ("string", "true", "false", "null", "object"), the value  *)
(* of a string, and the members of an object in the order written, each    *)
(* [name, kind, str].  An object is scanned member by member: the name,    *)
(* the colon, the value, then a comma or the closing brace.                *)
(***************************************************************************)
RECURSIVE ScanValue(_, _)
RECURSIVE ScanMembers(_, _, _)
RECURSIVE MemberName(_, _, _)
RECURSIVE MemberColon(_, _, _, _)
RECURSIVE MemberValue(_, _, _, _)
RECURSIVE MemberEnd(_, _, _)

StringValue(s) == IF s.ok THEN Scalar(s.next, "string", s.str) ELSE BadValue

ScanValue(b, i) ==
    IF i > Len(b) THEN BadValue
    ELSE IF b[i] = 34 THEN StringValue(ScanString(b, i + 1, <<>>))
    ELSE IF HasPrefixAt(b, i, S_true) THEN Scalar(i + 4, "true", <<>>)
    ELSE IF HasPrefixAt(b, i, S_false) THEN Scalar(i + 5, "false", <<>>)
    ELSE IF HasPrefixAt(b, i, S_null) THEN Scalar(i + 4, "null", <<>>)
    ELSE IF b[i] = 123 THEN ScanMembers(b, SkipSpace(b, i + 1), <<>>)
    ELSE BadValue

\* the members of an object from b[i] on, acc being those already scanned;
\* only an object without members may close here
ScanMembers(b, i, acc) ==
    IF i > Len(b) THEN BadValue
    ELSE IF b[i] = 125 /\ acc = <<>>
    THEN [ok |-> TRUE, next |-> i + 1, kind |-> "object", str |-> <<>>,
          members |-> <<>>]
    ELSE IF b[i] # 34 THEN BadValue
    ELSE MemberName(b, acc, ScanString(b, i + 1, <<>>))

MemberName(b, acc, name) ==
    IF ~name.ok THEN BadValue
    ELSE MemberColon(b, acc, name.str, SkipSpace(b, name.next))

MemberColon(b, acc, name, c) ==
    IF c > Len(b) \/ b[c] # 58 THEN BadValue
    ELSE MemberValue(b, acc, name, ScanValue(b, SkipSpace(b, c + 1)))

MemberValue(b, acc, name, v) ==
    IF ~v.ok THEN BadValue
    ELSE MemberEnd(b, Append(acc, [name |-> name, kind |-> v.kind, str |-> v.str]),
                   SkipSpace(b, v.next))

MemberEnd(b, members, e) ==
    IF e > Len(b) THEN BadValue
    ELSE IF b[e] = 125
    THEN [ok |-> TRUE, next |-> e + 1, kind |-> "object", str |-> <<>>,
          members |-> members]
    ELSE IF b[e] = 44
    THEN ScanMembers(b, SkipSpace(b, e + 1), members)
    ELSE BadValue

\* ASCII case folding, as the decoder matches member names to fields
Fold(s) == [k \in 1..Len(s) |-> IF s[k] >= 65 /\ s[k] <= 90 THEN s[k] + 32 ELSE s[k]]

\* the zero value of User
ZeroUser == [UUID |-> <<>>, Username |-> <<>>, Password |-> <<>>, IsAdmin |-> FALSE]

(***************************************************************************)
(* Storing the members of an object into a User, in the order written (a   *)
(* repeated name overwrites).  A member is matched to the field with that  *)
(* json tag, ignoring case; other members are skipped.  null leaves the    *)
(* field alone; a value of the wrong kind is an UnmarshalTypeError.        *)
(***************************************************************************)
RECURSIVE Unmarshal(_, _, _)
RECURSIVE UnmarshalField(_, _, _, _, _)
Unmarshal(members, k, u) ==
    IF k > Len(members) THEN [err |-> FALSE, user |-> u]
    ELSE UnmarshalField(members, k, u, members[k], Fold(members[k].name))

UnmarshalField(members, k, u, m, f) ==
    IF f \notin {S_uuid, S_username, S_password, S_is_admin} \/ m.kind = "null"
    THEN Unmarshal(members, k + 1, u)
    ELSE IF f = S_is_admin
    THEN (IF m.kind \in {"true", "false"}
          THEN Unmarshal(members, k + 1, [u EXCEPT !.IsAdmin = (m.kind = "true")])
          ELSE [err |-> TRUE, user |-> ZeroUser])
    ELSE IF m.kind # "string" THEN [err |-> TRUE, user |-> ZeroUser]
    ELSE IF f = S_uuid
    THEN Unmarshal(members, k + 1, [u EXCEPT !.UUID = m.str])
    ELSE IF f = S_username
    THEN Unmarshal(members, k + 1, [u EXCEPT !.Username = m.str])
    ELSE Unmarshal(members, k + 1, [u EXCEPT !.Password = m.str])

\* no User and an error
DecodeError == [err |-> TRUE, nil |-> TRUE, user |-> ZeroUser]

\* the result of DecodeUser for the object whose members were stored as r
DecodeObject(r) ==
    IF r.err THEN DecodeError ELSE [err |-> FALSE, nil |-> FALSE, user |-> r.user]

\* the result of DecodeUser for the scanned value v
DecodeValue(v) ==
    IF ~v.ok THEN DecodeError
    ELSE IF v.kind = "null" THEN [err |-> FALSE, nil |-> TRUE, user |-> ZeroUser]
    ELSE IF v.kind # "object" THEN DecodeError
    ELSE DecodeObject(Unmarshal(v.members, 1, ZeroUser))

(***************************************************************************)
(* DecodeUser: decode the first JSON value of the bytes into a *User.      *)
(* The result is [err, nil, user]: err is the error return; nil says the   *)
(* returned pointer is nil.  An object gives a User; the literal null      *)
(* leaves the pointer nil and is NOT an error; any other value, a syntax   *)
(* error and an empty input are errors (with a nil pointer).               *)
(***************************************************************************)
DecodeUser(user) == DecodeValue(ScanValue(user, SkipSpace(user, 1)))

(***************************************************************************)
(* golang.org/x/crypto/bcrypt, as AddUser uses it.  A hash is the prefix   *)
(* $2a$10$ (version and cost), the salt and a digest; the digest here is   *)
(* a stand-in of fixed length computed from the password.  Releases of     *)
(* the library since 2022 reject a password of more than 72 bytes with an  *)
(* error and no hash; earlier ones hash its first 72 bytes.  Both are      *)
(* outcomes a build can produce.                                           *)
(***************************************************************************)
BcryptCost == 10

BcryptPrefix == <<36, 50, 97, 36, 48 + (BcryptCost \div 10), 48 + (BcryptCost % 10), 36>>

RECURSIVE SumBytes(_, _)
SumBytes(s, i) == IF i > Len(s) THEN 0 ELSE s[i] + SumBytes(s, i + 1)

BcryptDigest(password) ==
    LET p == IF Len(password) > 72 THEN SubSeq(password, 1, 72) ELSE password
    IN <<65 + (SumBytes(p, 1) % 26), 97 + (Len(p) % 26)>>

\* the possible results [err, hash] of bcrypt.GenerateFromPassword(password, 10)
GenerateFromPassword(password, salt) ==
    {[err |-> FALSE, hash |-> BcryptPrefix \o <<salt>> \o BcryptDigest(password)]}
    \cup (IF Len(password) > 72 THEN {[err |-> TRUE, hash |-> <<>>]} ELSE {})

(***************************************************************************)
(* github.com/pborman/uuid: uuid.New() gives a random UUID; the model      *)
(* draws the n-th identifier of the run, written as a decimal digit.       *)
(***************************************************************************)
\* UUIDString, but every call gives the same identifier
UUIDString_Fixed(n) == <<48>>

UUIDString(n) == <<48 + n>>

(***************************************************************************)
(* Bounds and inputs.                                                      *)
(***************************************************************************)
\* calls of the writing operations (AddUser, DeleteUser, SetValue) in a run
MaxCalls == 2

\* the salt bcrypt draws
Salts == {83}

\* default bucket names (the constants of the package)
UserBucketName == <<97, 117, 116, 104, 98, 117, 99, 107, 101, 116>>
TokenBucketName == <<116, 111, 107, 101, 110, 98, 117, 99, 107, 101, 116>>

\* names a caller may pass to NewBoltDBAuthBackend
BucketNames == {<<>>, UserBucketName, TokenBucketName}

\* usernames and token keys: the empty key, "a" and the byte 0xFF (which is
\* not valid UTF-8)
Keys == {<<>>, <<97>>, <<255>>}

\* a password of 73 bytes
LongPassword == [i \in 1..73 |-> 112]

\* plaintext passwords: empty, "pw" and the long one
Passwords == {<<>>, <<112, 119>>, LongPassword}

\* the arguments of AddUser: every username with the password "pw" and
\* either flag, and the other passwords with the username "a"
AddUserArgs ==
    {x \in Keys \X Passwords \X BOOLEAN : x[2] = <<112, 119>> \/ (x[1] = <<97>> /\ ~x[3])}

\* token values: null, {} and x
Values == {S_null, <<123, 125>>, <<120>>}

VARIABLES
    UserBucket,   \* BoltAuth.UserBucket
    TokenBucket,  \* BoltAuth.TokenBucket
    DS,           \* the database: bucket name -> (key -> value)
    uuids,        \* identifiers uuid.New() has drawn so far
    ret,          \* the last call and what it returned
    userHist,     \* per key: the last write to it in the user bucket
    tokenHist,    \* key -> value of the last successful SetValue on the key
    addLog,       \* the identifiers the successful AddUser calls stored, in order
    calls,        \* calls of the writing operations so far
    pc,           \* per caller: where its call stands
    call,         \* per caller: the call it is in and its arguments
    tx,           \* per caller: the bolt transaction of its call
    out,          \* per caller: what its call returns
    seen          \* per caller: the committed databases during its read

\* the history of the calls made one after the other
seqvars == <<ret, userHist, tokenHist, addLog>>

\* the state of the callers that run concurrently
txvars == <<pc, call, tx, out, seen>>

vars == <<UserBucket, TokenBucket, DS, uuids, ret, userHist, tokenHist, addLog,
          calls, pc, call, tx, out, seen>>

(***************************************************************************)
(* bolt, as the backend uses it.                                           *)
(***************************************************************************)
\* a bucket with no key; a database with no bucket
EmptyBucket == <<>>
EmptyDB == <<>>

\* tx.Bucket(name) # nil
HasBucket(d, name) == name \in DOMAIN d

\* tx.CreateBucketIfNotExists(name): [err, db].  bolt refuses the empty name.
CreateBucketIfNotExists(d, name) ==
    IF Len(name) = 0 THEN [err |-> "bucket name required", db |-> d]
    ELSE IF name \in DOMAIN d THEN [err |-> "nil", db |-> d]
    ELSE [err |-> "nil",
          db |-> [n \in DOMAIN d \cup {name} |-> IF n = name THEN EmptyBucket ELSE d[n]]]

\* bucket.Put(key, value) on the bucket called name: [err, db].  (bolt also
\* refuses keys over 32768 bytes and values over 2^31 - 2 bytes; the keys and
\* values of the model are shorter.)
Put(d, name, key, value) ==
    IF Len(key) = 0 THEN [err |-> "key required", db |-> d]
    ELSE [err |-> "nil",
          db |-> [d EXCEPT ![name] =
                    [k \in DOMAIN d[name] \cup {key} |->
                        IF k = key THEN value ELSE d[name][k]]]]

\* bucket.Delete(key) on the bucket called name: [err, db].  Deleting a key
\* that is not stored, the empty key included, is no error.
Delete(d, name, key) ==
    [err |-> "nil",
     db |-> [d EXCEPT ![name] = [k \in DOMAIN d[name] \ {key} |-> d[name][k]]]]

\* Update, but what fn did is kept when fn returns an error too
Update_NoRollback(d, res) == res.db

\* db.Update(fn): commit what fn did when it returns nil, else roll back
Update(d, res) == IF res.err = "nil" THEN res.db ELSE d

\* byte order of keys (bytes.Compare(a, b) < 0)
RECURSIVE LessFrom(_, _, _)
LessFrom(a, b, i) ==
    IF i > Len(b) THEN FALSE
    ELSE IF i > Len(a) THEN TRUE
    ELSE IF a[i] # b[i] THEN a[i] < b[i]
    ELSE LessFrom(a, b, i + 1)

Less(a, b) == LessFrom(a, b, 1)

\* the keys a cursor visits, First() to the last Next(): ascending byte order
RECURSIVE CursorKeys(_)
CursorKeys(S) ==
    IF S = {} THEN <<>>
    ELSE LET m == CHOOSE x \in S : \A y \in S \ {x} : Less(x, y)
         IN <<m>> \o CursorKeys(S \ {m})

(***************************************************************************)
(* What a call returns.  err is "nil" or the error (for GetAllUsers,       *)
(* "panic" when the call panics instead of returning); value is the        *)
(* []byte of GetValue; nilUser says the *User of GetUser is nil; users is  *)
(* the []User of GetAllUsers.  The arguments of the call are kept too.     *)
(***************************************************************************)
NoRet == [op |-> "none", key |-> <<>>, password |-> <<>>, admin |-> FALSE,
          err |-> "nil", value |-> <<>>, nilUser |-> TRUE, user |-> ZeroUser,
          users |-> <<>>]

NoWrite == [op |-> "none", admin |-> FALSE, ids |-> <<>>]

\* the callers
Procs == {1, 2}

\* no call; no transaction; no result
NoCall == [name |-> "none", key |-> <<>>, password |-> <<>>, admin |-> FALSE,
           value |-> <<>>, rec |-> ZeroUser]

NoTx == [state |-> "none", writable |-> FALSE, db |-> EmptyDB, err |-> "nil",
         n |-> 0]

NoOut == [err |-> "nil"]

\* NewBoltDBAuthBackend on a database that holds nothing yet
Init ==
    /\ UserBucket \in BucketNames
    /\ TokenBucket \in BucketNames
    /\ DS = EmptyDB
    /\ uuids = 0
    /\ ret = NoRet
    /\ userHist = [k \in Keys |-> NoWrite]
    /\ tokenHist = <<>>
    /\ addLog = <<>>
    /\ calls = 0
    /\ pc = [p \in Procs |-> "idle"]
    /\ call = [p \in Procs |-> NoCall]
    /\ tx = [p \in Procs |-> NoTx]
    /\ out = [p \in Procs |-> NoOut]
    /\ seen = [p \in Procs |-> {}]

\* AddUserTx, but a record already stored under the username keeps its
\* identifier
AddUserTx_KeepId(d, username, hashed, id, admin) ==
    LET c == CreateBucketIfNotExists(d, UserBucket) IN
    IF c.err # "nil" THEN c
    ELSE LET old == IF username \in DOMAIN c.db[UserBucket]
                    THEN DecodeUser(c.db[UserBucket][username])
                    ELSE [err |-> TRUE, nil |-> TRUE, user |-> ZeroUser]
             u == [UUID |-> IF old.err \/ old.nil THEN UUIDString(id)
                            ELSE old.user.UUID,
                   Username |-> username,
                   Password |-> hashed.hash, IsAdmin |-> admin]
         IN Put(c.db, UserBucket, username, Encode(u))

\* the body of the transaction of AddUser: [err, db]
AddUserTx(d, username, hashed, id, admin) ==
    LET c == CreateBucketIfNotExists(d, UserBucket) IN
    IF c.err # "nil" THEN c
    ELSE LET u == [UUID |-> UUIDString(id), Username |-> username,
                   Password |-> hashed.hash, IsAdmin |-> admin]
         IN Put(c.db, UserBucket, username, Encode(u))

\* the identifier of the record stored under username in the user bucket
StoredUUID(d, username) == DecodeUser(d[UserBucket][username]).user.UUID

(***************************************************************************)
(* AddUser: one read-write transaction.  The identifier and the hash are   *)
(* made once the bucket is there (not when its creation fails); the error  *)
(* of the hash function is dropped, and a failed hash leaves the password  *)
(* of the record empty.                                                    *)
(***************************************************************************)
AddUser(username, password, admin) ==
    /\ calls < MaxCalls
    /\ \E salt \in Salts :
         \E hashed \in GenerateFromPassword(password, salt) :
           LET res == AddUserTx(DS, username, hashed, uuids + 1, admin)
               after == Update(DS, res)
           IN
           /\ DS' = after
           /\ ret' = [NoRet EXCEPT !.op = "AddUser", !.key = username,
                                   !.password = password, !.admin = admin,
                                   !.err = res.err]
           /\ userHist' =
                IF res.err # "nil" THEN userHist
                ELSE [userHist EXCEPT ![username] =
                        [op |-> "AddUser", admin |-> admin,
                         ids |-> Append(@.ids, StoredUUID(after, username))]]
           /\ addLog' =
                IF res.err # "nil" THEN addLog
                ELSE Append(addLog, StoredUUID(after, username))
    /\ uuids' = IF Len(UserBucket) = 0 THEN uuids ELSE uuids + 1
    /\ calls' = calls + 1
    /\ UNCHANGED <<UserBucket, TokenBucket, tokenHist>>
    /\ UNCHANGED txvars

\* deleteTx, but deleting a key that is not stored is an error
deleteTx_ErrIfAbsent(d, key, bucket) ==
    LET c == CreateBucketIfNotExists(d, bucket) IN
    IF c.err # "nil" THEN c
    ELSE IF key \notin DOMAIN c.db[bucket] THEN [err |-> "not found", db |-> c.db]
    ELSE Delete(c.db, bucket, key)

\* deleteTx, but the bucket is looked up and not created
deleteTx_NoCreate(d, key, bucket) ==
    IF ~HasBucket(d, bucket) THEN [err |-> "nil", db |-> d]
    ELSE Delete(d, bucket, key)

\* the body of the transaction of delete: [err, db]
deleteTx(d, key, bucket) ==
    LET c == CreateBucketIfNotExists(d, bucket) IN
    IF c.err # "nil" THEN c ELSE Delete(c.db, bucket, key)

\* delete(key, bucket): [err, db]
delete(d, key, bucket) ==
    LET res == deleteTx(d, key, bucket) IN [err |-> res.err, db |-> Update(d, res)]

DeleteUser(username) ==
    LET res == delete(DS, username, UserBucket) IN
    /\ calls < MaxCalls
    /\ calls' = calls + 1
    /\ DS' = res.db
    /\ ret' = [NoRet EXCEPT !.op = "DeleteUser", !.key = username, !.err = res.err]
    /\ userHist' =
         IF res.err # "nil" THEN userHist
         ELSE [userHist EXCEPT ![username] = [NoWrite EXCEPT !.op = "DeleteUser"]]
    /\ UNCHANGED <<UserBucket, TokenBucket, uuids, tokenHist, addLog>>
    /\ UNCHANGED txvars

\* what GetUser returns once DecodeUser has returned dec
GetUserDecoded(dec) ==
    IF dec.err
    THEN [err |-> "error while getting user", nilUser |-> TRUE, user |-> ZeroUser]
    ELSE [err |-> "nil", nilUser |-> dec.nil, user |-> dec.user]

\* GetUserResult, but a missing bucket is reported as a missing user
GetUserResult_MissingIsNotFound(d, username) ==
    IF ~HasBucket(d, UserBucket) \/ username \notin DOMAIN d[UserBucket]
    THEN [err |-> "user not found", nilUser |-> TRUE, user |-> ZeroUser]
    ELSE GetUserDecoded(DecodeUser(d[UserBucket][username]))

\* GetUser(username): [err, nilUser, user]
GetUserResult(d, username) ==
    IF ~HasBucket(d, UserBucket)
    THEN [err |-> "bucket not found", nilUser |-> TRUE, user |-> ZeroUser]
    ELSE IF username \notin DOMAIN d[UserBucket]
    THEN [err |-> "user not found", nilUser |-> TRUE, user |-> ZeroUser]
    ELSE GetUserDecoded(DecodeUser(d[UserBucket][username]))

GetUser(username) ==
    LET res == GetUserResult(DS, username) IN
    /\ ret' = [NoRet EXCEPT !.op = "GetUser", !.key = username, !.err = res.err,
                            !.nilUser = res.nilUser, !.user = res.user]
    /\ UNCHANGED <<UserBucket, TokenBucket, DS, uuids, userHist, tokenHist, addLog, calls>>
    /\ UNCHANGED txvars

(***************************************************************************)
(* The loop of GetAllUsers over the keys ks[i..] of the bucket bkt: a      *)
(* value that fails to decode is skipped, a decoded user is appended, and  *)
(* dereferencing the nil pointer DecodeUser returns for null panics.       *)
(***************************************************************************)
RECURSIVE ScanUsers(_, _, _, _)
RECURSIVE ScanUser(_, _, _, _, _)
ScanUsers(bkt, ks, i, users) ==
    IF i > Len(ks) THEN [err |-> "nil", users |-> users]
    ELSE ScanUser(bkt, ks, i, users, DecodeUser(bkt[ks[i]]))

\* one turn of the loop, usr and err of DecodeUser being dec
ScanUser(bkt, ks, i, users, dec) ==
    IF dec.err THEN ScanUsers(bkt, ks, i + 1, users)
    ELSE IF dec.nil THEN [err |-> "panic", users |-> <<>>]
    ELSE ScanUsers(bkt, ks, i + 1, Append(users, dec.user))

\* GetAllUsers(): [err, users]
GetAllUsersResult(d) ==
    IF ~HasBucket(d, UserBucket) THEN [err |-> "nil", users |-> <<>>]
    ELSE ScanUsers(d[UserBucket], CursorKeys(DOMAIN d[UserBucket]), 1, <<>>)

GetAllUsers ==
    LET res == GetAllUsersResult(DS) IN
    /\ ret' = [NoRet EXCEPT !.op = "GetAllUsers", !.err = res.err,
                            !.users = res.users]
    /\ UNCHANGED <<UserBucket, TokenBucket, DS, uuids, userHist, tokenHist, addLog, calls>>
    /\ UNCHANGED txvars

\* SetValueTx, but a key already stored keeps its value
SetValueTx_KeepFirst(d, key, value) ==
    LET c == CreateBucketIfNotExists(d, TokenBucket) IN
    IF c.err # "nil" THEN c
    ELSE IF key \in DOMAIN c.db[TokenBucket] THEN c
    ELSE Put(c.db, TokenBucket, key, value)

\* SetValueTx, but the error of bucket.Put is dropped
SetValueTx_DropPutError(d, key, value) ==
    LET c == CreateBucketIfNotExists(d, TokenBucket) IN
    IF c.err # "nil" THEN c
    ELSE [err |-> "nil", db |-> Put(c.db, TokenBucket, key, value).db]

\* SetValueTx, but the token goes into the user bucket
SetValueTx_UserBucket(d, key, value) ==
    LET c == CreateBucketIfNotExists(d, UserBucket) IN
    IF c.err # "nil" THEN c ELSE Put(c.db, UserBucket, key, value)

\* the body of the transaction of SetValue: [err, db]
SetValueTx(d, key, value) ==
    LET c == CreateBucketIfNotExists(d, TokenBucket) IN
    IF c.err # "nil" THEN c ELSE Put(c.db, TokenBucket, key, value)

\* the history of the user bucket after a write of a token to key
TokenWrite(h, key) ==
    IF TokenBucket = UserBucket
    THEN [h EXCEPT ![key] = [NoWrite EXCEPT !.op = "SetValue"]]
    ELSE h

SetValue(key, value) ==
    /\ calls < MaxCalls
    /\ LET res == SetValueTx(DS, key, value) IN
       /\ DS' = Update(DS, res)
       /\ ret' = [NoRet EXCEPT !.op = "SetValue", !.key = key, !.value = value,
                               !.err = res.err]
       /\ tokenHist' =
            IF res.err # "nil" THEN tokenHist
            ELSE [k \in DOMAIN tokenHist \cup {key} |->
                    IF k = key THEN value ELSE tokenHist[k]]
       /\ userHist' = IF res.err # "nil" THEN userHist ELSE TokenWrite(userHist, key)
    /\ calls' = calls + 1
    /\ UNCHANGED <<UserBucket, TokenBucket, uuids, addLog>>
    /\ UNCHANGED txvars

\* GetValue(key): [err, value]
GetValueResult(d, key) ==
    IF ~HasBucket(d, TokenBucket) THEN [err |-> "bucket not found", value |-> <<>>]
    ELSE IF key \notin DOMAIN d[TokenBucket]
    THEN [err |-> "key not found", value |-> <<>>]
    ELSE [err |-> "nil", value |-> d[TokenBucket][key]]

GetValue(key) ==
    LET res == GetValueResult(DS, key) IN
    /\ ret' = [NoRet EXCEPT !.op = "GetValue", !.key = key, !.err = res.err,
                            !.value = res.value]
    /\ UNCHANGED <<UserBucket, TokenBucket, DS, uuids, userHist, tokenHist, addLog, calls>>
    /\ UNCHANGED txvars

Next ==
    \/ \E x \in AddUserArgs : AddUser(x[1], x[2], x[3])
    \/ \E u \in Keys : DeleteUser(u)
    \/ \E u \in Keys : GetUser(u)
    \/ GetAllUsers
    \/ \E k \in Keys, v \in Values : SetValue(k, v)
    \/ \E k \in Keys : GetValue(k)

Spec == Init /\ [][Next]_vars

(***************************************************************************)
(* The same operations called by several callers at once, a step at a      *)
(* time.  Every operation is one call of db.Update or db.View: bolt begins *)
(* a transaction, runs the function of the operation on it, and ends it.   *)
(* A writable transaction holds the writer lock of the database from its   *)
(* beginning to its end and works on its own copy of the database, which   *)
(* replaces the committed one at commit; a read-only transaction reads     *)
(* the database as committed when it began.  A caller is "idle", then in   *)
(* "tx" (transaction begun), "bucket" (a write that has its bucket), "fn"  *)
(* (the function has returned) and "done" (transaction ended, result in    *)
(* hand), and idle again once the call has returned.                       *)
(***************************************************************************)
\* the bucket names (user, token) of the backend they share: the defaults,
\* and one name for both
TxBuckets == {<<UserBucketName, TokenBucketName>>, <<UserBucketName, UserBucketName>>}

\* the writes of the caller p: AddUser of "a" (caller 1 adds an admin, the
\* others do not) and of the empty username (which bucket.Put refuses),
\* DeleteUser of "a", and SetValue of null and of x under "a"
WriteCalls(p) ==
    {[NoCall EXCEPT !.name = "AddUser", !.key = <<97>>, !.password = <<112, 119>>,
                    !.admin = (p = 1)]}
    \cup {[NoCall EXCEPT !.name = "AddUser", !.password = <<112, 119>>]}
    \cup {[NoCall EXCEPT !.name = "DeleteUser", !.key = <<97>>]}
    \cup {[NoCall EXCEPT !.name = "SetValue", !.key = <<97>>, !.value = v] :
             v \in {S_null, <<120>>}}

\* their reads: GetUser and GetValue of "a", and GetAllUsers
ReadCalls ==
    {[NoCall EXCEPT !.name = "GetUser", !.key = <<97>>],
     [NoCall EXCEPT !.name = "GetAllUsers"],
     [NoCall EXCEPT !.name = "GetValue", !.key = <<97>>]}

TxInit == Init /\ <<UserBucket, TokenBucket>> \in TxBuckets

\* the callers whose transaction is open and writable (the writer lock
\* admits one)
Writers == {q \in Procs : tx[q].state = "open" /\ tx[q].writable}

\* the database as the open writable transaction has it, the committed one
\* when there is none
WorkingDB == IF Writers = {} THEN DS ELSE tx[CHOOSE q \in Writers : TRUE].db

\* Snapshot, but a read sees what an open writable transaction has written
Snapshot_Dirty(committed, working) == working

\* what a read-only transaction reads: the database as committed at its
\* beginning
Snapshot(committed, working) == committed

\* tx.Rollback, but the transaction stays open
Rollback_Leak(t) == t

\* tx.Rollback and tx.Commit end the transaction (and free the writer lock
\* a writable one holds)
Rollback(t) == [t EXCEPT !.state = "closed"]

Commit(t) == [t EXCEPT !.state = "closed"]

\* the bucket a write works on
BucketOf(c) == IF c.name = "SetValue" THEN TokenBucket ELSE UserBucket

\* db.Update(fn) begins: the writer lock is taken, waiting for it first
BeginUpdate(p, c) ==
    /\ pc[p] = "idle"
    /\ tx[p].state # "open"
    /\ calls < MaxCalls
    /\ Writers = {}
    /\ pc' = [pc EXCEPT ![p] = "tx"]
    /\ call' = [call EXCEPT ![p] = c]
    /\ tx' = [tx EXCEPT ![p] = [state |-> "open", writable |-> TRUE, db |-> DS,
                                err |-> "nil", n |-> @.n + 1]]
    /\ calls' = calls + 1
    /\ UNCHANGED <<UserBucket, TokenBucket, DS, uuids, out, seen>>
    /\ UNCHANGED seqvars

\* db.View(fn) begins
BeginView(p, c) ==
    /\ pc[p] = "idle"
    /\ tx[p].state # "open"
    /\ pc' = [pc EXCEPT ![p] = "tx"]
    /\ call' = [call EXCEPT ![p] = c]
    /\ tx' = [tx EXCEPT ![p] = [state |-> "open", writable |-> FALSE,
                                db |-> Snapshot(DS, WorkingDB),
                                err |-> "nil", n |-> @.n + 1]]
    /\ seen' = [seen EXCEPT ![p] = {DS}]
    /\ UNCHANGED <<UserBucket, TokenBucket, DS, uuids, calls, out>>
    /\ UNCHANGED seqvars

\* the first statement of AddUser, delete and SetValue:
\* tx.CreateBucketIfNotExists, and return err when it fails
UpdateBucket(p) ==
    /\ pc[p] = "tx" /\ tx[p].writable
    /\ LET c == CreateBucketIfNotExists(tx[p].db, BucketOf(call[p])) IN
       /\ tx' = [tx EXCEPT ![p].db = c.db, ![p].err = c.err]
       /\ pc' = [pc EXCEPT ![p] = IF c.err = "nil" THEN "bucket" ELSE "fn"]
    /\ UNCHANGED <<UserBucket, TokenBucket, DS, uuids, calls, call, out, seen>>
    /\ UNCHANGED seqvars

\* the rest of the function of AddUser: hash, identifier, Encode, Put
AddUserBody(p) ==
    /\ pc[p] = "bucket" /\ call[p].name = "AddUser"
    /\ \E salt \in Salts :
         \E hashed \in GenerateFromPassword(call[p].password, salt) :
           LET u == [UUID |-> UUIDString(uuids + 1),
                     Username |-> call[p].key,
                     Password |-> hashed.hash, IsAdmin |-> call[p].admin]
               r == Put(tx[p].db, UserBucket, call[p].key, Encode(u))
           IN /\ tx' = [tx EXCEPT ![p].db = r.db, ![p].err = r.err]
              /\ call' = [call EXCEPT ![p].rec = u]
    /\ uuids' = uuids + 1
    /\ pc' = [pc EXCEPT ![p] = "fn"]
    /\ UNCHANGED <<UserBucket, TokenBucket, DS, calls, out, seen>>
    /\ UNCHANGED seqvars

\* the rest of the function of delete: bucket.Delete
deleteBody(p) ==
    /\ pc[p] = "bucket" /\ call[p].name = "DeleteUser"
    /\ LET r == Delete(tx[p].db, UserBucket, call[p].key) IN
       tx' = [tx EXCEPT ![p].db = r.db, ![p].err = r.err]
    /\ pc' = [pc EXCEPT ![p] = "fn"]
    /\ UNCHANGED <<UserBucket, TokenBucket, DS, uuids, calls, call, out, seen>>
    /\ UNCHANGED seqvars

\* the rest of the function of SetValue: bucket.Put
SetValueBody(p) ==
    /\ pc[p] = "bucket" /\ call[p].name = "SetValue"
    /\ LET r == Put(tx[p].db, TokenBucket, call[p].key, call[p].value) IN
       tx' = [tx EXCEPT ![p].db = r.db, ![p].err = r.err]
    /\ pc' = [pc EXCEPT ![p] = "fn"]
    /\ UNCHANGED <<UserBucket, TokenBucket, DS, uuids, calls, call, out, seen>>
    /\ UNCHANGED seqvars

\* what the read c returns on the database d
ReadResult(d, c) ==
    IF c.name = "GetUser" THEN GetUserResult(d, c.key)
    ELSE IF c.name = "GetAllUsers" THEN GetAllUsersResult(d)
    ELSE GetValueResult(d, c.key)

\* the function of GetUser, GetAllUsers or GetValue, on what its
\* transaction reads
ViewBody(p) ==
    /\ pc[p] = "tx" /\ ~tx[p].writable
    /\ out' = [out EXCEPT ![p] = ReadResult(tx[p].db, call[p])]
    /\ pc' = [pc EXCEPT ![p] = "fn"]
    /\ UNCHANGED <<UserBucket, TokenBucket, DS, uuids, calls, call, tx, seen>>
    /\ UNCHANGED seqvars

\* the reads in progress see one more committed database
Witnessed(d) ==
    [q \in Procs |->
        IF tx[q].state = "open" /\ ~tx[q].writable THEN seen[q] \cup {d} ELSE seen[q]]

\* db.Update(fn) ends: commit when fn returned nil, else roll back
EndUpdate(p) ==
    /\ pc[p] = "fn" /\ tx[p].writable
    /\ DS' = Update(DS, [err |-> tx[p].err, db |-> tx[p].db])
    /\ tx' = [tx EXCEPT ![p] = IF tx[p].err = "nil" THEN Commit(@) ELSE Rollback(@)]
    /\ out' = [out EXCEPT ![p] = [err |-> tx[p].err]]
    /\ seen' = Witnessed(Update(DS, [err |-> tx[p].err, db |-> tx[p].db]))
    /\ pc' = [pc EXCEPT ![p] = "done"]
    /\ UNCHANGED <<UserBucket, TokenBucket, uuids, calls, call>>
    /\ UNCHANGED seqvars

\* db.View(fn) ends: roll back, also when fn panics
EndView(p) ==
    /\ pc[p] = "fn" /\ ~tx[p].writable
    /\ tx' = [tx EXCEPT ![p] = Rollback(@)]
    /\ pc' = [pc EXCEPT ![p] = "done"]
    /\ UNCHANGED <<UserBucket, TokenBucket, DS, uuids, calls, call, out, seen>>
    /\ UNCHANGED seqvars

\* the call returns (or panics) to its caller
Return(p) ==
    /\ pc[p] = "done"
    /\ pc' = [pc EXCEPT ![p] = "idle"]
    /\ call' = [call EXCEPT ![p] = NoCall]
    /\ out' = [out EXCEPT ![p] = NoOut]
    /\ seen' = [seen EXCEPT ![p] = {}]
    /\ tx' = [tx EXCEPT ![p] = IF @.state = "open" THEN [@ EXCEPT !.n = 0] ELSE NoTx]
    /\ UNCHANGED <<UserBucket, TokenBucket, DS, uuids, calls>>
    /\ UNCHANGED seqvars

TxNext ==
    \/ \E p \in Procs : \E c \in WriteCalls(p) : BeginUpdate(p, c)
    \/ \E p \in Procs, c \in ReadCalls : BeginView(p, c)
    \/ \E p \in Procs : UpdateBucket(p)
    \/ \E p \in Procs : AddUserBody(p)
    \/ \E p \in Procs : deleteBody(p)
    \/ \E p \in Procs : SetValueBody(p)
    \/ \E p \in Procs : ViewBody(p)
    \/ \E p \in Procs : EndUpdate(p)
    \/ \E p \in Procs : EndView(p)
    \/ \E p \in Procs : Return(p)

\* where a call can stand
Positions == {"idle", "tx", "bucket", "fn", "done"}

\* the caller p, being in a call, goes one step further in it.  A call
\* under way can always go on (only the beginning of a write waits, for the
\* writer lock), and the step of TxNext that moves p is the next step of
\* its call.
Step(p) ==
    /\ pc[p] # "idle"
    /\ \E s \in Positions \ {pc[p]} : pc' = [pc EXCEPT ![p] = s]

\* every caller runs on: a call under way is not held up for ever
TxSpec == TxInit /\ [][TxNext]_vars /\ \A p \in Procs : WF_pc(Step(p))

(***************************************************************************)
(* Shorthands of the properties.                                           *)
(***************************************************************************)
\* the backend was built with two distinct keyspace names
DistinctNames == UserBucket # TokenBucket

\* the user keyspace: key -> stored bytes (no key when it was never created)
UserKeyspace == IF HasBucket(DS, UserBucket) THEN DS[UserBucket] ELSE EmptyBucket

\* the record stored under key u of the user keyspace, decoded
StoredUser(u) == DecodeUser(UserKeyspace[u])

\* the keys of the user keyspace whose value decodes to a user
UserKeys == {k \in DOMAIN UserKeyspace : ~StoredUser(k).err /\ ~StoredUser(k).nil}

(***************************************************************************)
(* C1: after two successful AddUser calls on a username u with no other    *)
(* write to the key u in between, the user keyspace holds a record under   *)
(* u, the record carries the is_admin flag of the later call, and its      *)
(* identifier is the one the later call stored and differs from the one    *)
(* the earlier call stored.                                                *)
(***************************************************************************)
C1_LastWriteWins ==
    \A u \in Keys :
        LET h == userHist[u]
            n == Len(h.ids)
        IN (h.op = "AddUser" /\ n >= 2) =>
              /\ u \in UserKeys
              /\ StoredUser(u).user.IsAdmin = h.admin
              /\ StoredUser(u).user.UUID = h.ids[n]
              /\ StoredUser(u).user.UUID # h.ids[n - 1]

\* the second AddUser on a username has returned, with the flag set
C1_Witness ==
    /\ ret.op = "AddUser" /\ ret.err = "nil" /\ ret.admin
    /\ Len(userHist[ret.key].ids) = 2
    /\ Cardinality(DOMAIN UserKeyspace) = 1

(***************************************************************************)
(* C2: for a backend built with two distinct keyspace names, GetValue(k)   *)
(* fails with the keyspace-missing error exactly when no SetValue has      *)
(* succeeded so far, and with the not-found error exactly when some        *)
(* SetValue has succeeded but none on k; and once the token keyspace       *)
(* exists it stays, and GetValue never reports it missing again.           *)
(***************************************************************************)
C2_Results ==
    (DistinctNames /\ ret.op = "GetValue") =>
        /\ (ret.err = "bucket not found") <=> (DOMAIN tokenHist = {})
        /\ (ret.err = "key not found") <=>
              (DOMAIN tokenHist # {} /\ ret.key \notin DOMAIN tokenHist)

C2_KeyspaceStays ==
    (DistinctNames /\ HasBucket(DS, TokenBucket)) =>
        /\ HasBucket(DS', TokenBucket)
        /\ ret'.op = "GetValue" => ret'.err # "bucket not found"

C2_LookupAsymmetry == [](C2_Results) /\ [][C2_KeyspaceStays]_vars

\* GetValue reported a key absent from the existing token keyspace, after a
\* SetValue that failed and one that succeeded
C2_Witness ==
    /\ DistinctNames
    /\ ret.op = "GetValue" /\ ret.err = "key not found"
    /\ calls = 2 /\ uuids = 0
    /\ Cardinality(DOMAIN tokenHist) = 1
    /\ \A k \in Keys : userHist[k].op = "none"

(***************************************************************************)
(* C3: when the last write to the key u of the user keyspace is a          *)
(* successful AddUser(u, p, a), GetUser(u) succeeds with a record whose    *)
(* username is u and whose is_admin is a; when it is a DeleteUser(u),      *)
(* GetUser(u) fails with the not-found error.                              *)
(***************************************************************************)
C3_AddGetDelete ==
    ret.op = "GetUser" =>
        LET h == userHist[ret.key] IN
        /\ h.op = "AddUser" =>
              /\ ret.err = "nil" /\ ~ret.nilUser
              /\ ret.user.Username = ret.key
              /\ ret.user.IsAdmin = h.admin
        /\ h.op = "DeleteUser" => ret.err = "user not found"

(***************************************************************************)
(* C4: GetAllUsers returns exactly the decoded records of the keys of the  *)
(* user keyspace whose value decodes to a user, one per key, in ascending  *)
(* byte order of the key.                                                  *)
(***************************************************************************)
\* the place of the key k among the keys that decode to a user
Rank(k) == Cardinality({j \in UserKeys : Less(j, k)}) + 1

ExpectedUsers ==
    [i \in 1..Cardinality(UserKeys) |->
        StoredUser(CHOOSE k \in UserKeys : Rank(k) = i).user]

C4_AllDecodableInKeyOrder ==
    ret.op = "GetAllUsers" => (ret.err = "nil" /\ ret.users = ExpectedUsers)

(***************************************************************************)
(* C5: GetAllUsers never fails and never panics, whatever the user         *)
(* keyspace holds, and returns the empty sequence when the keyspace is     *)
(* absent.                                                                 *)
(***************************************************************************)
C5_GetAllUsersTotal ==
    ret.op = "GetAllUsers" =>
        /\ ret.err = "nil"
        /\ ~HasBucket(DS, UserBucket) => ret.users = <<>>

(***************************************************************************)
(* C6: DeleteUser(u) returns no error in every state (u stored, u absent,  *)
(* keyspace never created), and a second DeleteUser(u) leaves the store    *)
(* as the first left it.                                                   *)
(***************************************************************************)
C6_DeleteAlwaysSucceeds ==
    ret.op = "DeleteUser" =>
        /\ ret.err = "nil"
        /\ delete(DS, ret.key, UserBucket) = [err |-> "nil", db |-> DS]

\* C6 as amended: the same, for a backend whose user keyspace name is not
\* empty (bolt refuses to create a bucket with an empty name)
C6_DeleteSucceedsNamed == (UserBucket # <<>>) => C6_DeleteAlwaysSucceeds

\* DeleteUser was the first write of the run, on a keyspace never created,
\* and returned no error
C6_Witness ==
    /\ UserBucket # <<>>
    /\ ret.op = "DeleteUser" /\ ret.err = "nil"
    /\ calls = 1
    /\ UserKeyspace = EmptyBucket /\ HasBucket(DS, UserBucket)

(***************************************************************************)
(* C7: for a backend built with two distinct keyspace names, GetValue(k)   *)
(* returns the value of the last successful SetValue on k, whatever other  *)
(* operations came after it, and SetValue(k, v) twice leaves the store as  *)
(* SetValue(k, v) once.                                                    *)
(***************************************************************************)
SetTwiceIsOnce ==
    \A k \in Keys, v \in Values :
        LET once == Update(DS, SetValueTx(DS, k, v))
        IN Update(once, SetValueTx(once, k, v)) = once

C7_TokenLastWriteWins ==
    DistinctNames =>
        /\ \A k \in DOMAIN tokenHist :
              GetValueResult(DS, k) = [err |-> "nil", value |-> tokenHist[k]]
        /\ (ret.op = "GetValue" /\ ret.key \in DOMAIN tokenHist) =>
              (ret.err = "nil" /\ ret.value = tokenHist[ret.key])
        /\ SetTwiceIsOnce

\* GetValue returned the token of a key after a user write on the same
\* byte string
C7_Witness ==
    /\ DistinctNames
    /\ ret.op = "GetValue" /\ ret.err = "nil"
    /\ userHist[ret.key].op # "none"

(***************************************************************************)
(* C8: every AddUser(u, p, a) that returns no error leaves under u a       *)
(* record whose password field is not empty and is not p.                  *)
(***************************************************************************)
C8_PasswordOpaque ==
    (ret.op = "AddUser" /\ ret.err = "nil") =>
        /\ ret.key \in UserKeys
        /\ StoredUser(ret.key).user.Password # <<>>
        /\ StoredUser(ret.key).user.Password # ret.password

(***************************************************************************)
(* C9: no two successful AddUser calls store the same identifier, and no   *)
(* two records of the user keyspace carry the same identifier.             *)
(***************************************************************************)
FreshIdentifiers ==
    \A i, j \in 1..Len(addLog) : i # j => addLog[i] # addLog[j]

UniqueIdentifiers ==
    \A j, k \in UserKeys : j # k => StoredUser(j).user.UUID # StoredUser(k).user.UUID

C9_IdentifiersUnique == FreshIdentifiers /\ UniqueIdentifiers

\* C9 as amended: the identifiers of the records are pairwise different for
\* a backend built with two distinct keyspace names
C9_IdentifiersUniqueDistinct ==
    FreshIdentifiers /\ (DistinctNames => UniqueIdentifiers)

\* two AddUser calls have stored two records
C9_Witness ==
    /\ DistinctNames
    /\ Len(addLog) = 2
    /\ Cardinality(UserKeys) = 2

(***************************************************************************)
(* C10: for a backend built with two distinct keyspace names, every value  *)
(* of the user keyspace decodes to a user whose username is the key it is  *)
(* stored under.                                                           *)
(***************************************************************************)
C10_UsernameIsKey ==
    DistinctNames =>
        \A k \in DOMAIN UserKeyspace :
            k \in UserKeys /\ StoredUser(k).user.Username = k

(***************************************************************************)
(* C11: a call of AddUser, DeleteUser or SetValue that returns an error    *)
(* leaves the database as it was before the call, the set of buckets       *)
(* included; AddUser with an empty username and SetValue with an empty     *)
(* key return an error; and when such a failed call is made while the      *)
(* keyspace does not exist, the keyspace still does not exist after it     *)
(* and GetUser (GetValue) reports it missing.                              *)
(***************************************************************************)
WriteOps == {"AddUser", "DeleteUser", "SetValue"}

C11_EmptyKeyFails ==
    (ret.op \in {"AddUser", "SetValue"} /\ ret.key = <<>>) => ret.err # "nil"

C11_FailedWriteStep ==
    (ret'.op \in WriteOps /\ ret'.err # "nil") =>
        /\ DS' = DS
        /\ DOMAIN DS' = DOMAIN DS
        /\ (ret'.op = "AddUser" /\ ~HasBucket(DS, UserBucket)) =>
              \A u \in Keys : GetUserResult(DS', u).err = "bucket not found"
        /\ (ret'.op = "SetValue" /\ ~HasBucket(DS, TokenBucket)) =>
              \A k \in Keys : GetValueResult(DS', k).err = "bucket not found"

C11_FailedWriteChangesNothing ==
    [](C11_EmptyKeyFails) /\ [][C11_FailedWriteStep]_vars

\* AddUser with the empty username has failed at bucket.Put, after its
\* transaction had created the user keyspace, and the keyspace is not there
C11_Witness ==
    /\ ret.op = "AddUser" /\ ret.key = <<>> /\ ret.err = "key required"
    /\ UserBucket # <<>>
    /\ ~HasBucket(DS, UserBucket)
    /\ HasBucket(AddUserTx(DS, <<>>, [err |-> FALSE, hash |-> <<>>], 1, FALSE).db,
                 UserBucket)

(***************************************************************************)
(* C14: for a backend built with two distinct keyspace names, a SetValue   *)
(* call leaves the user keyspace as it was (whether it exists, and every   *)
(* key and value in it), an AddUser or DeleteUser call leaves the token    *)
(* keyspace as it was, and a byte string stored both as a username and as  *)
(* a token key has its record under the one and its token under the        *)
(* other.                                                                  *)
(***************************************************************************)
\* the keyspace called name: whether it exists, and its keys and values
Keyspace(d, name) ==
    [exists |-> HasBucket(d, name),
     entries |-> IF HasBucket(d, name) THEN d[name] ELSE EmptyBucket]

C14_KeyspacesApartStep ==
    DistinctNames =>
        /\ ret'.op = "SetValue" => Keyspace(DS', UserBucket) = Keyspace(DS, UserBucket)
        /\ ret'.op \in {"AddUser", "DeleteUser"} =>
              Keyspace(DS', TokenBucket) = Keyspace(DS, TokenBucket)

C14_SameKeyApart ==
    DistinctNames =>
        \A k \in Keys :
            (userHist[k].op = "AddUser" /\ k \in DOMAIN tokenHist) =>
                /\ GetValueResult(DS, k) = [err |-> "nil", value |-> tokenHist[k]]
                /\ GetUserResult(DS, k).err = "nil"
                /\ GetUserResult(DS, k).user.UUID =
                      userHist[k].ids[Len(userHist[k].ids)]

C14_KeyspacesApart == [](C14_SameKeyApart) /\ [][C14_KeyspacesApartStep]_vars

\* the same byte string is stored as a username and as a token key, the
\* token written last
C14_Witness ==
    /\ DistinctNames
    /\ ret.op = "SetValue" /\ ret.err = "nil"
    /\ userHist[ret.key].op = "AddUser"
    /\ ret.key \in DOMAIN DS[UserBucket] /\ ret.key \in DOMAIN DS[TokenBucket]

(***************************************************************************)
(* C15: GetUser returns exactly one of: a user and no error, the           *)
(* not-found error, the keyspace-missing error, or the decode error; it    *)
(* never returns no error together with no user; and it returns the        *)
(* decode error whenever the value stored under the key does not decode    *)
(* to a user.                                                              *)
(***************************************************************************)
C15_GetUserOutcomes ==
    ret.op = "GetUser" =>
        /\ ret.err \in {"nil", "user not found", "bucket not found",
                        "error while getting user"}
        /\ ret.err = "nil" <=> ~ret.nilUser
        /\ (ret.key \in DOMAIN UserKeyspace /\ ret.key \notin UserKeys) =>
              ret.err = "error while getting user"

(***************************************************************************)
(* C16: a call of GetValue, GetUser or GetAllUsers leaves the database as  *)
(* it was, whatever it returns: no bucket is created and no key added,     *)
(* changed or removed; and as long as no write has succeeded, GetUser and  *)
(* GetValue report the keyspace missing, however many reads came before.   *)
(***************************************************************************)
ReadOps == {"GetValue", "GetUser", "GetAllUsers"}

\* no call of AddUser, DeleteUser or SetValue has succeeded so far
NoWriteYet ==
    /\ DOMAIN tokenHist = {}
    /\ \A k \in Keys : userHist[k].op = "none"

C16_ReadStep ==
    ret'.op \in ReadOps => (DS' = DS /\ DOMAIN DS' = DOMAIN DS)

C16_MissingUntilWrite ==
    NoWriteYet =>
        /\ DS = EmptyDB
        /\ ret.op \in {"GetUser", "GetValue"} => ret.err = "bucket not found"

C16_ReadsChangeNothing == [](C16_MissingUntilWrite) /\ [][C16_ReadStep]_vars

\* GetUser reported the keyspace missing after two writes that failed
C16_Witness ==
    /\ NoWriteYet
    /\ calls = 2
    /\ UserBucket # <<>>
    /\ ret.op = "GetUser" /\ ret.err = "bucket not found"

(***************************************************************************)
(* C17: after a DeleteUser call that returned no error, with no AddUser    *)
(* call having succeeded so far, the user keyspace exists and is empty     *)
(* and GetUser fails with the not-found error for every username; and      *)
(* once the user keyspace exists, it exists after every further call.      *)
(***************************************************************************)
\* DeleteUser has succeeded and AddUser has not
DeletedNeverAdded ==
    /\ addLog = <<>>
    /\ \E k \in Keys : userHist[k].op = "DeleteUser"

\* right after the DeleteUser call
C17_AfterDelete ==
    (ret.op = "DeleteUser" /\ ret.err = "nil" /\ addLog = <<>>) =>
        /\ HasBucket(DS, UserBucket)
        /\ UserKeyspace = EmptyBucket
        /\ \A u \in Keys : GetUserResult(DS, u).err = "user not found"

\* a GetUser call after it
C17_ThenGetUser ==
    (DeletedNeverAdded /\ ret.op = "GetUser") => ret.err = "user not found"

C17_EmptyAfterDelete == C17_AfterDelete /\ C17_ThenGetUser

C17_KeyspaceStays == HasBucket(DS, UserBucket) => HasBucket(DS', UserBucket)

\* C17 as amended: the first part for a backend built with two distinct
\* keyspace names (with one name for both, SetValue fills the keyspace)
C17_DeleteCreatesKeyspaceDistinct ==
    [](DistinctNames => C17_EmptyAfterDelete) /\ [][C17_KeyspaceStays]_vars

\* GetUser reported the user missing from the keyspace DeleteUser created,
\* a token being stored under the same byte string
C17_Witness ==
    /\ DistinctNames
    /\ DeletedNeverAdded
    /\ ret.op = "GetUser" /\ ret.err = "user not found"
    /\ ret.key \in DOMAIN tokenHist

(***************************************************************************)
(* C12: with callers running at once, what a GetAllUsers, GetUser or       *)
(* GetValue call returns is what the call returns on one of the databases  *)
(* that were the committed one at some moment between its beginning and    *)
(* its end (never on the work in progress of a write); and when two        *)
(* AddUser calls on one username are under way together and both have      *)
(* succeeded, the user keyspace holds under that username the whole        *)
(* record one of the two calls built, and under no other key.              *)
(***************************************************************************)
C12_ReadsAtomic ==
    \A p \in Procs :
        (pc[p] \in {"fn", "done"} /\ call[p].name \in ReadOps) =>
            \E d \in seen[p] : out[p] = ReadResult(d, call[p])

\* p and q are both in an AddUser call on the same username that has
\* committed and not yet returned
BothAdded(p, q) ==
    /\ p # q
    /\ pc[p] = "done" /\ pc[q] = "done"
    /\ call[p].name = "AddUser" /\ call[q].name = "AddUser"
    /\ call[p].key = call[q].key
    /\ out[p].err = "nil" /\ out[q].err = "nil"

C12_OneWholeRecord ==
    \A p, q \in Procs :
        BothAdded(p, q) =>
            /\ call[p].key \in DOMAIN UserKeyspace
            /\ UserKeyspace[call[p].key] \in {Encode(call[p].rec), Encode(call[q].rec)}
            /\ {k \in DOMAIN UserKeyspace :
                   UserKeyspace[k] \in {Encode(call[p].rec), Encode(call[q].rec)}}
                 = {call[p].key}
            /\ call[p].rec # call[q].rec

C12_Isolation == C12_ReadsAtomic /\ C12_OneWholeRecord

\* a read has returned what the database held when it began, a write
\* having committed during the read and the read returning something else
\* on the database as it is now
C12_Witness ==
    \E p \in Procs :
        /\ pc[p] = "done" /\ call[p].name \in ReadOps
        /\ Cardinality(seen[p]) = 2
        /\ out[p] # ReadResult(DS, call[p])

(***************************************************************************)
(* C13: a call has exactly one transaction, open while the function of     *)
(* the call runs and closed (committed or rolled back) when the call has   *)
(* its result, whatever the result; a caller that is in no call has no     *)
(* open transaction; at most one writable transaction is open; and every   *)
(* open transaction is closed later on, so that the writer lock is free    *)
(* again.                                                                  *)
(***************************************************************************)
C13_TxPerCall ==
    /\ \A p \in Procs :
          /\ pc[p] \in {"tx", "bucket", "fn"} => (tx[p].state = "open" /\ tx[p].n = 1)
          /\ pc[p] = "done" => (tx[p].state = "closed" /\ tx[p].n = 1)
          /\ pc[p] = "idle" => tx[p].state = "none"
    /\ Cardinality(Writers) <= 1

C13_TxAlwaysClosed ==
    /\ [](C13_TxPerCall)
    /\ \A p \in Procs : (tx[p].state = "open") ~> (tx[p].state # "open")
    /\ (Writers # {}) ~> (Writers = {})

\* one call has ended on a write failure and another on a decode failure,
\* both with their transaction closed
C13_Witness ==
    \E p, q \in Procs :
        /\ pc[p] = "done" /\ call[p].name = "AddUser" /\ out[p].err = "key required"
        /\ pc[q] = "done" /\ call[q].name = "GetUser"
        /\ out[q].err = "error while getting user"
        /\ tx[p].state = "closed" /\ tx[q].state = "closed"

====
